---- MODULE Spec2Model ----
(***************************************************************************)
(* Claims Triage front end (src/src/App.jsx): the App component's state    *)
(* (activeView, claims, isLoading), the UploadSection component's state    *)
(* (selectedFiles), the upload in flight between handleFileUpload's        *)
(* setTimeout and its continuation, the wall clock read by Date.now(), and *)
(* the last message shown by alert().                                      *)
(* The startup scripts (start_manujain_integration.sh and the two scripts  *)
(* quoted in PROJECT_SUMMARY.md and QUICKSTART.md) are a second machine,   *)
(* specified by SpecStart: the script's position, the ports in use, the    *)
(* service processes and the locals of wait_for_service.                   *)
(***************************************************************************)
EXTENDS Integers, Sequences, FiniteSets, TLC

(* ------------------------------ bounds --------------------------------- *)
\* Most claims the list may hold (handleSubmit is not taken beyond it).
MaxClaims == 2
\* Most files the selection may hold.
MaxSelected == 2
\* Most files offered to one handleFileSelect call.
MaxBatch == 2
\* Math.random() is sampled as n / RandDenom.
RandDenom == 16
\* The clock advances in steps of TickMs up to MaxTime (milliseconds).
TickMs == 2000
MaxTime == 6000
\* The last instant the clock reaches; handleSubmit is not taken when its
\* timer would fire later.
LastTick == (MaxTime \div TickMs) * TickMs

(* ------------------------------ files ---------------------------------- *)
\* A File object: name, MIME type (file.type) and content.
PdfType == "application/pdf"
FileUniverse ==
  { [name |-> "a.pdf", type |-> PdfType, bytes |-> "A"],
    [name |-> "b.pdf", type |-> PdfType, bytes |-> "B"],
    [name |-> "c.txt", type |-> "text/plain", bytes |-> "C"] }

\* The FileList handed to handleFileSelect: any sequence of files, also empty,
\* each file of the picker dialog or of the drop at most once.
SeqsUpTo(S, n) == UNION { [1..k -> S] : k \in 0..n }
FileLists ==
  { fl \in SeqsUpTo(FileUniverse, MaxBatch) :
      \A i, j \in 1..Len(fl) : i # j => fl[i] # fl[j] }

\* fileArray.filter(file => file.type === 'application/pdf') (line 54).
isPdf(file) == file.type = PdfType
\* The file array taken as it comes, without the filter.
pdfFilesOf_noFilter(files) == files
pdfFilesOf(files) == SelectSeq(files, isPdf)

\* A filter that takes index as 1-based.
removeAt_oneBased(prev, index) ==
  [ j \in 1..(Len(prev) - 1) |-> IF j < index THEN prev[j] ELSE prev[j + 1] ]
\* prev.filter((_, i) => i !== index) (line 87), index 0-based.
removeAt(prev, index) ==
  [ j \in 1..(Len(prev) - 1) |-> IF j <= index THEN prev[j] ELSE prev[j + 1] ]

(* --------------------------- generateMockClaim -------------------------- *)
\* Math.random() lies in [0, 1): the numerators sampled, smallest and largest.
RandomSamples == { 0, RandDenom - 1 }
\* Math.floor(Math.random() * k) for the draw r / RandDenom.
FloorRandomTimes(r, k) == (r * k) \div RandDenom

ComplexityLevels == << "Low", "Medium", "High" >>
Teams == << "General Claims", "Major Incidents Unit", "Fraud Investigation", "Legal Review" >>
AllFlags == << "Litigation Risk", "Fraudulent Activity Suspected", "High Value", "Urgent Review" >>

\* Severity as Math.floor(Math.random() * 11) + 1 would give it.
Severity_scaledBy11(r) == FloorRandomTimes(r, 11) + 1
Severity(r) == FloorRandomTimes(r, 10) + 1
Complexity(r) == ComplexityLevels[FloorRandomTimes(r, 3) + 1]
SuggestedTeam(r) == Teams[FloorRandomTimes(r, 4) + 1]
\* Flags as .slice(0, Math.floor(Math.random() * 4) + 1) would give them.
Flags_upToFour(r) == SubSeq(AllFlags, 1, FloorRandomTimes(r, 4) + 1)
Flags(r) == SubSeq(AllFlags, 1, FloorRandomTimes(r, 3) + 1)

\* new Date().toLocaleDateString(): the calendar day of the instant.
toLocaleDateString(t) == t \div 86400000

\* The four Math.random() calls of one generateMockClaim call.
Draws == [ severity : RandomSamples, complexity : RandomSamples,
           team : RandomSamples, flags : RandomSamples ]

generateMockClaim(claimId, d, t) ==
  [ id            |-> claimId,
    severity      |-> Severity(d.severity),
    complexity    |-> Complexity(d.complexity),
    suggestedTeam |-> SuggestedTeam(d.team),
    flags         |-> Flags(d.flags),
    uploadDate    |-> toLocaleDateString(t),
    status        |-> "Pending Review" ]

\* The id without the index of the file in its batch.
MakeClaimId_noIndex(t, index) == "CL-" \o ToString(t)
\* `CL-${Date.now()}-${index}` (line 386), index 0-based.
MakeClaimId(t, index) == "CL-" \o ToString(t) \o "-" \o ToString(index)

\* fileArray.map((file, index) => generateMockClaim(...)) at Date.now() = t.
newClaimsOf(fileArray, ds, t) ==
  [ j \in 1..Len(fileArray) |-> generateMockClaim(MakeClaimId(t, j - 1), ds[j], t) ]

\* An updater that puts the new claims behind the previous ones.
prependClaims_append(newClaims, prevClaims) == prevClaims \o newClaims
\* An updater that replaces the list instead of prepending to it.
prependClaims_dropPrev(newClaims, prevClaims) == newClaims
\* The setClaims updater (line 389).
prependClaims(newClaims, prevClaims) == newClaims \o prevClaims

(* ------------------------------- state --------------------------------- *)
VARIABLES
  activeView,     \* App: 'upload' or 'dashboard'
  claims,         \* App: the claim list, newest batch first
  isLoading,      \* App: the loading flag
  selectedFiles,  \* UploadSection: the selection (lost when the section unmounts)
  upload,         \* the handleFileUpload call suspended at its await, or NoUpload
  now,            \* the clock Date.now() and setTimeout read
  alertMsg,       \* the message of the last alert(), or NoAlert
  completed       \* history: the `files` argument of every handleFileUpload call
                  \* that has completed, newest first

appVars == << activeView, claims, isLoading, selectedFiles, upload, now, alertMsg, completed >>

\* The startup script and its environment.
VARIABLES
  script,         \* which startup script runs, or NoScript
  pc,             \* the position in the script (index into its commands)
  exitStatus,     \* Running, or how the script ended
  portsInUse,     \* the ports some process listens on before the script starts one
  running,        \* the service processes that are alive
  launched,       \* the services started with &, in order ($..._PID is set)
  checkedFree,    \* the ports check_port has reported available in this run
  answered,       \* the ports a curl probe of this run has got an answer from
  waitedOk,       \* the ports whose wait_for_service has returned 0
  attempt,        \* wait_for_service: local attempt (0 outside a call)
  probes,         \* wait_for_service: curl calls made by the current or last call
  lastProbe,      \* wait_for_service: outcome of the latest curl of the call
  waitResult,     \* wait_for_service: state of the current or last call
  trapSet,        \* trap cleanup SIGINT SIGTERM has been executed
  printedSuccess, \* the ALL SERVICES STARTED SUCCESSFULLY banner has been printed
  signalled       \* the signal the script has received, or NoSignal

startVars == << script, pc, exitStatus, portsInUse, running, launched, checkedFree,
                answered, waitedOk, attempt, probes, lastProbe, waitResult,
                trapSet, printedSuccess, signalled >>

vars == << appVars, startVars >>

NoScript == "none"
Running == "running"
NoSignal == "none"

\* No startup script is involved: the state of these variables under Spec.
StartOff ==
  /\ script = NoScript
  /\ pc = 0
  /\ exitStatus = Running
  /\ portsInUse = {}
  /\ running = {}
  /\ launched = << >>
  /\ checkedFree = {}
  /\ answered = {}
  /\ waitedOk = {}
  /\ attempt = 0
  /\ probes = 0
  /\ lastProbe = "none"
  /\ waitResult = "none"
  /\ trapSet = FALSE
  /\ printedSuccess = FALSE
  /\ signalled = NoSignal

NoUpload == [ files |-> << >>, deadline |-> 0 ]
NoAlert == ""
SelectPdfAlert == "Please select PDF files"
UploadErrorAlert == "Error processing claims. Please try again."
ReassignAlert(claimId) == "Reassigning claim " \o claimId \o "..."

\* The delay of the simulated API call: 2000 ms per file (line 382).
UploadDelayPerFile == 2000

ClaimIdsOf(cs) == { cs[j].id : j \in 1..Len(cs) }

\* The documents (contents) a file array carries.
DocumentSet(files) == { files[j].bytes : j \in 1..Len(files) }

AppInit ==
  /\ activeView = "upload"
  /\ claims = << >>
  /\ isLoading = FALSE
  /\ selectedFiles = << >>
  /\ upload = NoUpload
  /\ now = 0
  /\ alertMsg = NoAlert
  /\ completed = << >>

Init == AppInit /\ StartOff

(* ------------------------------ actions -------------------------------- *)
\* UploadSection.handleFileSelect, reached from the file input's onChange and
\* from handleDrop.
handleFileSelect(files) ==
  /\ activeView = "upload"
  /\ LET pdfFiles == pdfFilesOf(files) IN
       IF Len(pdfFiles) > 0
       THEN /\ Len(selectedFiles) + Len(pdfFiles) <= MaxSelected
            /\ selectedFiles' = selectedFiles \o pdfFiles
            /\ alertMsg' = alertMsg
       ELSE /\ alertMsg' = SelectPdfAlert
            /\ selectedFiles' = selectedFiles
  /\ UNCHANGED << startVars, activeView, claims, isLoading, upload, now, completed >>

\* UploadSection.handleDrop: the dropped files go to handleFileSelect. The
\* isDragOver flag it resets only picks the colour of the drop area.
handleDrop(files) ==
  /\ activeView = "upload"
  /\ LET pdfFiles == pdfFilesOf(files) IN
       IF Len(pdfFiles) > 0
       THEN /\ Len(selectedFiles) + Len(pdfFiles) <= MaxSelected
            /\ selectedFiles' = selectedFiles \o pdfFiles
            /\ alertMsg' = alertMsg
       ELSE /\ alertMsg' = SelectPdfAlert
            /\ selectedFiles' = selectedFiles
  /\ UNCHANGED << startVars, activeView, claims, isLoading, upload, now, completed >>

\* UploadSection.removeFile: the x button of entry `index` (0-based).
removeFile(index) ==
  /\ activeView = "upload"
  /\ index \in 0..(Len(selectedFiles) - 1)
  /\ selectedFiles' = removeAt(selectedFiles, index)
  /\ UNCHANGED << startVars, activeView, claims, isLoading, upload, now, alertMsg, completed >>

\* UploadSection.clearAllFiles: the Clear All button, shown with a selection.
clearAllFiles ==
  /\ activeView = "upload"
  /\ Len(selectedFiles) > 0
  /\ selectedFiles' = << >>
  /\ UNCHANGED << startVars, activeView, claims, isLoading, upload, now, alertMsg, completed >>

\* A submit that calls the upload handler with whatever is selected, also
\* with nothing.
handleSubmit_emptyBatch ==
  /\ activeView = "upload"
  /\ ~ isLoading
  /\ Len(claims) + Len(selectedFiles) <= MaxClaims
  /\ now + UploadDelayPerFile * Len(selectedFiles) <= LastTick
  /\ isLoading' = TRUE
  /\ upload' = [ files |-> selectedFiles,
                 deadline |-> now + UploadDelayPerFile * Len(selectedFiles) ]
  /\ UNCHANGED << startVars, activeView, claims, selectedFiles, now, alertMsg, completed >>

\* A Submit button that is enabled while an upload is processing.
handleSubmit_whileLoading ==
  /\ activeView = "upload"
  /\ Len(selectedFiles) > 0
  /\ Len(claims) + Len(selectedFiles) <= MaxClaims
  /\ now + UploadDelayPerFile * Len(selectedFiles) <= LastTick
  /\ isLoading' = TRUE
  /\ upload' = [ files |-> selectedFiles,
                 deadline |-> now + UploadDelayPerFile * Len(selectedFiles) ]
  /\ UNCHANGED << startVars, activeView, claims, selectedFiles, now, alertMsg, completed >>

\* The Submit button (disabled without a selection or while loading) calls
\* handleSubmit, which calls handleFileUpload up to its await: the loading
\* flag is set and the timer of 2000 ms per file is started.
handleSubmit ==
  /\ activeView = "upload"
  /\ ~ (Len(selectedFiles) = 0 \/ isLoading)
  /\ Len(selectedFiles) > 0
  /\ Len(claims) + Len(selectedFiles) <= MaxClaims
  /\ now + UploadDelayPerFile * Len(selectedFiles) <= LastTick
  /\ isLoading' = TRUE
  /\ upload' = [ files |-> selectedFiles,
                 deadline |-> now + UploadDelayPerFile * Len(selectedFiles) ]
  /\ UNCHANGED << startVars, activeView, claims, selectedFiles, now, alertMsg, completed >>

\* handleFileUpload after its await: the timer has fired, the claims are
\* generated and prepended, the view switches to the dashboard (which unmounts
\* the UploadSection and so drops its selection) and the loading flag is reset.
handleFileUploadDone ==
  /\ upload # NoUpload
  /\ now >= upload.deadline
  /\ \E ds \in [ 1..Len(upload.files) -> Draws ] :
       claims' = prependClaims(newClaimsOf(upload.files, ds, now), claims)
  /\ activeView' = "dashboard"
  /\ selectedFiles' = << >>
  /\ isLoading' = FALSE
  /\ upload' = NoUpload
  /\ completed' = << upload.files >> \o completed
  /\ UNCHANGED << startVars, now, alertMsg >>

\* A failure path that has already stored the claim of the first file.
handleFileUploadFailed_partial ==
  /\ upload # NoUpload
  /\ \E d \in Draws :
       claims' = << generateMockClaim(MakeClaimId(now, 0), d, now) >> \o claims
  /\ alertMsg' = UploadErrorAlert
  /\ isLoading' = FALSE
  /\ upload' = NoUpload
  /\ UNCHANGED << startVars, activeView, selectedFiles, now, completed >>

\* A failure path without the finally block: the loading flag stays set.
handleFileUploadFailed_noFinally ==
  /\ upload # NoUpload
  /\ alertMsg' = UploadErrorAlert
  /\ upload' = NoUpload
  /\ UNCHANGED << startVars, activeView, claims, isLoading, selectedFiles, now, completed >>

\* handleFileUpload when its try block raises: the catch block reports the
\* error and the finally block resets the loading flag (lines 391-396). The
\* statements that write state, setClaims and setActiveView, are the last of
\* the try block, so nothing has been written when the catch block is
\* entered. The try block as written calls nothing that raises; the action is
\* the exception the catch block is written for, raised by the simulated API
\* call.
handleFileUploadFailed ==
  /\ upload # NoUpload
  /\ alertMsg' = UploadErrorAlert
  /\ isLoading' = FALSE
  /\ upload' = NoUpload
  /\ UNCHANGED << startVars, activeView, claims, selectedFiles, now, completed >>

\* A reassign that scores the claim anew.
handleReassign_rescore(claimId) ==
  /\ activeView = "dashboard"
  /\ claimId \in ClaimIdsOf(claims)
  /\ alertMsg' = ReassignAlert(claimId)
  /\ \E d \in Draws :
       claims' = [ j \in 1..Len(claims) |->
                    IF claims[j].id = claimId
                    THEN generateMockClaim(claimId, d, now)
                    ELSE claims[j] ]
  /\ UNCHANGED << startVars, activeView, isLoading, selectedFiles, upload, now, completed >>

\* App.handleReassign: the Reassign button of a claim card on the dashboard.
handleReassign(claimId) ==
  /\ activeView = "dashboard"
  /\ claimId \in ClaimIdsOf(claims)
  /\ alertMsg' = ReassignAlert(claimId)
  /\ UNCHANGED << startVars, activeView, claims, isLoading, selectedFiles, upload, now, completed >>

\* The navigation items (lines 405-421).
navUpload ==
  /\ activeView' = "upload"
  /\ UNCHANGED << startVars, claims, isLoading, selectedFiles, upload, now, alertMsg, completed >>

navDashboard ==
  /\ activeView' = "dashboard"
  /\ selectedFiles' = << >>
  /\ UNCHANGED << startVars, claims, isLoading, upload, now, alertMsg, completed >>

\* Time passes.
Tick ==
  /\ now + TickMs <= MaxTime
  /\ now' = now + TickMs
  /\ UNCHANGED << startVars, activeView, claims, isLoading, selectedFiles, upload, alertMsg, completed >>

Next ==
  \/ \E files \in FileLists : handleFileSelect(files)
  \/ \E index \in 0..(MaxSelected - 1) : removeFile(index)
  \/ clearAllFiles
  \/ handleSubmit
  \/ handleFileUploadDone
  \/ handleFileUploadFailed
  \/ \E files \in FileLists : handleDrop(files)
  \/ \E claimId \in ClaimIdsOf(claims) : handleReassign(claimId)
  \/ navUpload
  \/ navDashboard
  \/ Tick

Spec == Init /\ [][Next]_vars

\* The browser's event loop: time passes, and a timer whose delay has passed
\* fires, which resumes the handleFileUpload call that awaits it.
SpecFair == Spec /\ WF_vars(Tick) /\ WF_vars(handleFileUploadDone)

(* --------------------------- startup scripts --------------------------- *)
\* The commands of a script that change or read the modelled state.
kill_port_cmd(port) == [ op |-> "kill_port", port |-> port, svc |-> "" ]
check_port_cmd(port) == [ op |-> "check_port", port |-> port, svc |-> "" ]
launch_cmd(svc) == [ op |-> "launch", port |-> 0, svc |-> svc ]
wait_cmd(port) == [ op |-> "wait_for_service", port |-> port, svc |-> "" ]
success_cmd == [ op |-> "success", port |-> 0, svc |-> "" ]
trap_cmd == [ op |-> "trap", port |-> 0, svc |-> "" ]
monitor_cmd == [ op |-> "monitor", port |-> 0, svc |-> "" ]

\* start_manujain_integration.sh.
ManujainScript ==
  << kill_port_cmd(5173), kill_port_cmd(8000), kill_port_cmd(8001), kill_port_cmd(3000),
     kill_port_cmd(2001), kill_port_cmd(3002), kill_port_cmd(3003),
     check_port_cmd(5173), check_port_cmd(8000), check_port_cmd(8001), check_port_cmd(3000),
     check_port_cmd(2001), check_port_cmd(3002), check_port_cmd(3003),
     launch_cmd("LANDINGAI"), wait_cmd(8001),
     launch_cmd("CLAIMS_API"), wait_cmd(8000),
     launch_cmd("FRONTEND"), wait_cmd(5173),
     launch_cmd("INKEEP"), wait_cmd(3000),
     success_cmd, trap_cmd, monitor_cmd >>

\* The MCP central startup script (PROJECT_SUMMARY.md).
CentralScript ==
  << kill_port_cmd(8000), kill_port_cmd(8001), kill_port_cmd(5173), kill_port_cmd(3000),
     kill_port_cmd(2001), kill_port_cmd(3002), kill_port_cmd(3003),
     check_port_cmd(8000), check_port_cmd(8001), check_port_cmd(5173), check_port_cmd(3000),
     check_port_cmd(2001), check_port_cmd(3002), check_port_cmd(3003),
     launch_cmd("LANDINGAI"), wait_cmd(8001),
     launch_cmd("INKEEP"), wait_cmd(3000), wait_cmd(3002), wait_cmd(3003),
     launch_cmd("FRONTEND"), wait_cmd(5173),
     launch_cmd("MCP_CENTRAL"), wait_cmd(8000),
     success_cmd, trap_cmd, monitor_cmd >>

\* start_complete_integration.sh (QUICKSTART.md): no kill_port, six ports checked.
CompleteScript ==
  << check_port_cmd(5173), check_port_cmd(8000), check_port_cmd(8001), check_port_cmd(3000),
     check_port_cmd(3002), check_port_cmd(3003),
     launch_cmd("LANDINGAI"), wait_cmd(8001),
     launch_cmd("CLAIMS_API"), wait_cmd(8000),
     launch_cmd("FRONTEND"), wait_cmd(5173),
     launch_cmd("INKEEP"), wait_cmd(3000),
     success_cmd, trap_cmd, monitor_cmd >>

Scripts == { "manujain", "central", "complete" }
Program(sc) ==
  IF sc = "manujain" THEN ManujainScript
  ELSE IF sc = "central" THEN CentralScript
  ELSE IF sc = "complete" THEN CompleteScript
  ELSE << >>

\* The ports a script lists under "Access Points" after the banner.
AccessPoints(sc) ==
  IF sc = "complete" THEN { 5173, 8000, 8001, 3000, 3002, 3003 }
  ELSE { 5173, 8000, 8001, 3000, 2001, 3002, 3003 }

Ports == { 5173, 8000, 8001, 3000, 2001, 3002, 3003 }

\* wait_for_service: local max_attempts=30.
max_attempts == 30

\* check_port that reports every port available.
check_port_alwaysFree(port, inUse) == 0
\* check_port: 1 when lsof finds a listener on the port, else 0.
check_port(port, inUse) == IF port \in inUse THEN 1 ELSE 0

\* A command list that goes on after a failed command.
OrExit_goesOn(status) == FALSE
\* `command || exit 1`: the script exits when the command's status is not 0.
OrExit(status) == status # 0

\* A loop test of attempt < max_attempts.
LoopGoesOn_lessThan(a) == a < max_attempts
\* while [ $attempt -le $max_attempts ].
LoopGoesOn(a) == a <= max_attempts

Cmd == Program(script)[pc]
AtCmd(op) ==
  /\ exitStatus = Running
  /\ pc \in 1..Len(Program(script))
  /\ Cmd.op = op

StartInit ==
  /\ AppInit
  /\ script \in Scripts
  /\ pc = 1
  /\ exitStatus = Running
  /\ portsInUse \in SUBSET Ports
  /\ running = {}
  /\ launched = << >>
  /\ checkedFree = {}
  /\ answered = {}
  /\ waitedOk = {}
  /\ attempt = 0
  /\ probes = 0
  /\ lastProbe = "none"
  /\ waitResult = "none"
  /\ trapSet = FALSE
  /\ printedSuccess = FALSE
  /\ signalled = NoSignal

\* kill_port: kill -9 of the process lsof finds on the port; the kill may not
\* take effect (a process of another user), and the script goes on either way.
kill_port ==
  /\ AtCmd("kill_port")
  /\ \/ portsInUse' = portsInUse \ { Cmd.port }
     \/ portsInUse' = portsInUse
  /\ pc' = pc + 1
  /\ UNCHANGED << appVars, script, exitStatus, running, launched, checkedFree, answered,
                  waitedOk, attempt, probes, lastProbe, waitResult, trapSet,
                  printedSuccess, signalled >>

\* check_port <port> || exit 1.
check_port_or_exit ==
  /\ AtCmd("check_port")
  /\ LET status == check_port(Cmd.port, portsInUse) IN
       /\ checkedFree' = IF status = 0 THEN checkedFree \cup { Cmd.port } ELSE checkedFree
       /\ IF OrExit(status)
          THEN exitStatus' = "exit 1" /\ pc' = pc
          ELSE exitStatus' = exitStatus /\ pc' = pc + 1
  /\ UNCHANGED << appVars, script, portsInUse, running, launched, answered, waitedOk,
                  attempt, probes, lastProbe, waitResult, trapSet, printedSuccess,
                  signalled >>

\* <service command> & ; ..._PID=$!
launch ==
  /\ AtCmd("launch")
  /\ running' = running \cup { Cmd.svc }
  /\ launched' = Append(launched, Cmd.svc)
  /\ pc' = pc + 1
  /\ UNCHANGED << appVars, script, exitStatus, portsInUse, checkedFree, answered, waitedOk,
                  attempt, probes, lastProbe, waitResult, trapSet, printedSuccess,
                  signalled >>

\* wait_for_service is entered: its locals are set (attempt=1).
wait_enter ==
  /\ AtCmd("wait_for_service")
  /\ attempt = 0
  /\ attempt' = 1
  /\ probes' = 0
  /\ lastProbe' = "none"
  /\ waitResult' = "running"
  /\ UNCHANGED << appVars, script, pc, exitStatus, portsInUse, running, launched,
                  checkedFree, answered, waitedOk, trapSet, printedSuccess, signalled >>

\* What one curl -s "$url" call does: it exits 0 (the service answers), it
\* exits non-zero (the connection is refused), or it does not exit (the
\* service accepts the connection and sends nothing: curl is given no
\* --max-time and has no timeout of its own for the answer).
ProbeOutcomes == { "ok", "fail", "hang" }

\* The loop test holds and curl -s "$url" runs.
wait_probe(outcome) ==
  /\ AtCmd("wait_for_service")
  /\ attempt >= 1
  /\ lastProbe # "ok"
  /\ probes < attempt
  /\ LoopGoesOn(attempt)
  /\ probes' = probes + 1
  /\ lastProbe' = outcome
  /\ answered' = IF outcome = "ok" THEN answered \cup { Cmd.port } ELSE answered
  /\ UNCHANGED << appVars, script, pc, exitStatus, portsInUse, running, launched,
                  checkedFree, waitedOk, attempt, waitResult, trapSet, printedSuccess,
                  signalled >>

\* The peer of a curl that waits for an answer closes the connection (the
\* service ends): curl exits non-zero.
curl_aborted ==
  /\ AtCmd("wait_for_service")
  /\ lastProbe = "hang"
  /\ lastProbe' = "fail"
  /\ UNCHANGED << appVars, script, pc, exitStatus, portsInUse, running, launched,
                  checkedFree, answered, waitedOk, attempt, probes, waitResult, trapSet,
                  printedSuccess, signalled >>

\* curl succeeded: return 0, and the script goes on to its next command.
wait_return_ok ==
  /\ AtCmd("wait_for_service")
  /\ attempt >= 1
  /\ lastProbe = "ok"
  /\ waitResult' = "ok"
  /\ waitedOk' = waitedOk \cup { Cmd.port }
  /\ attempt' = 0
  /\ pc' = pc + 1
  /\ UNCHANGED << appVars, script, exitStatus, portsInUse, running, launched, checkedFree,
                  answered, probes, lastProbe, trapSet, printedSuccess, signalled >>

\* curl failed: sleep 2; attempt=$((attempt + 1)).
wait_retry ==
  /\ AtCmd("wait_for_service")
  /\ attempt >= 1
  /\ lastProbe = "fail"
  /\ probes = attempt
  /\ attempt' = attempt + 1
  /\ UNCHANGED << appVars, script, pc, exitStatus, portsInUse, running, launched,
                  checkedFree, answered, waitedOk, probes, lastProbe, waitResult, trapSet,
                  printedSuccess, signalled >>

\* A failed wait after which the script goes on to its next command.
wait_return_fail_goesOn ==
  /\ AtCmd("wait_for_service")
  /\ attempt >= 1
  /\ probes < attempt
  /\ ~ LoopGoesOn(attempt)
  /\ waitResult' = "fail"
  /\ attempt' = 0
  /\ pc' = pc + 1
  /\ UNCHANGED << appVars, script, exitStatus, portsInUse, running, launched, checkedFree,
                  answered, waitedOk, probes, lastProbe, trapSet, printedSuccess,
                  signalled >>

\* A failed wait whose exit runs cleanup: the launched services are killed.
wait_return_fail_cleanup ==
  /\ AtCmd("wait_for_service")
  /\ attempt >= 1
  /\ probes < attempt
  /\ ~ LoopGoesOn(attempt)
  /\ waitResult' = "fail"
  /\ attempt' = 0
  /\ exitStatus' = "exit 1"
  /\ running' = running \ { launched[k] : k \in 1..Len(launched) }
  /\ UNCHANGED << appVars, script, pc, portsInUse, launched, checkedFree, answered,
                  waitedOk, probes, lastProbe, trapSet, printedSuccess, signalled >>

\* The loop test fails: return 1, and `|| exit 1` ends the script.
wait_return_fail ==
  /\ AtCmd("wait_for_service")
  /\ attempt >= 1
  /\ probes < attempt
  /\ ~ LoopGoesOn(attempt)
  /\ waitResult' = "fail"
  /\ attempt' = 0
  /\ IF OrExit(1)
     THEN exitStatus' = "exit 1" /\ pc' = pc
     ELSE exitStatus' = exitStatus /\ pc' = pc + 1
  /\ UNCHANGED << appVars, script, portsInUse, running, launched, checkedFree, answered,
                  waitedOk, probes, lastProbe, trapSet, printedSuccess, signalled >>

\* echo ALL SERVICES STARTED SUCCESSFULLY and the access points.
print_success ==
  /\ AtCmd("success")
  /\ printedSuccess' = TRUE
  /\ pc' = pc + 1
  /\ UNCHANGED << appVars, script, exitStatus, portsInUse, running, launched, checkedFree,
                  answered, waitedOk, attempt, probes, lastProbe, waitResult, trapSet,
                  signalled >>

\* trap cleanup SIGINT SIGTERM.
set_trap ==
  /\ AtCmd("trap")
  /\ trapSet' = TRUE
  /\ pc' = pc + 1
  /\ UNCHANGED << appVars, script, exitStatus, portsInUse, running, launched, checkedFree,
                  answered, waitedOk, attempt, probes, lastProbe, waitResult,
                  printedSuccess, signalled >>

\* SIGINT or SIGTERM reaches the script. With the trap set, cleanup kills the
\* four PIDs and exits 0. Without it the shell dies of the signal and kills
\* nothing: on SIGTERM the services live on, on SIGINT (Ctrl+C goes to the
\* whole foreground process group) those that do not ignore it die.
Signals == { "SIGINT", "SIGTERM" }
signal(sig) ==
  /\ script # NoScript
  /\ exitStatus = Running
  /\ signalled' = sig
  /\ IF trapSet
     THEN /\ running' = running \ { launched[k] : k \in 1..Len(launched) }
          /\ exitStatus' = "exit 0"
     ELSE /\ exitStatus' = "killed"
          /\ IF sig = "SIGINT"
             THEN running' \in SUBSET running
             ELSE running' = running
  /\ UNCHANGED << appVars, script, pc, portsInUse, launched, checkedFree, answered,
                  waitedOk, attempt, probes, lastProbe, waitResult, trapSet,
                  printedSuccess >>

\* A service process ends by itself (it fails to start, or crashes).
service_dies(svc) ==
  /\ svc \in running
  /\ running' = running \ { svc }
  /\ UNCHANGED << appVars, script, pc, exitStatus, portsInUse, launched, checkedFree,
                  answered, waitedOk, attempt, probes, lastProbe, waitResult, trapSet,
                  printedSuccess, signalled >>

Services == { "LANDINGAI", "CLAIMS_API", "FRONTEND", "INKEEP", "MCP_CENTRAL" }

StartNext ==
  \/ kill_port
  \/ check_port_or_exit
  \/ launch
  \/ wait_enter
  \/ \E outcome \in ProbeOutcomes : wait_probe(outcome)
  \/ curl_aborted
  \/ wait_return_ok
  \/ wait_retry
  \/ wait_return_fail
  \/ print_success
  \/ set_trap
  \/ \E sig \in Signals : signal(sig)
  \/ \E svc \in Services : service_dies(svc)

SpecStart == StartInit /\ [][StartNext]_vars

\* The steps the shell takes by itself: it goes on to the next command of the
\* script as long as one can run. Signals, a service's end and a closed
\* connection come from outside and need not happen.
ScriptStep ==
  \/ kill_port
  \/ check_port_or_exit
  \/ launch
  \/ wait_enter
  \/ \E outcome \in ProbeOutcomes : wait_probe(outcome)
  \/ wait_return_ok
  \/ wait_retry
  \/ wait_return_fail
  \/ print_success
  \/ set_trap

SpecStartFair == SpecStart /\ WF_vars(ScriptStep)

(* ---------------------------- properties ------------------------------- *)
\* The score of a claim: severity, complexity and risk flags.
ScoreOf(c) == << c.severity, c.complexity, c.flags >>
ScoresOf(cs) == [ j \in 1..Len(cs) |-> ScoreOf(cs[j]) ]

\* The files of all completed uploads, in the order of the claims made for
\* them: entry j is the file claims[j] was generated for.
RECURSIVE Flatten(_)
Flatten(ss) == IF ss = << >> THEN << >> ELSE Head(ss) \o Flatten(Tail(ss))
UploadedFiles == Flatten(completed)

\* A step in which a suspended handleFileUpload call completes.
UploadCompletes == upload # NoUpload /\ upload' = NoUpload

\* The contents of a file array, in order.
BytesOf(files) == [ j \in 1..Len(files) |-> files[j].bytes ]
\* The scores of the claims made for completed upload k, in file order.
ScoresOfUpload(k) ==
  LET offset == Len(Flatten(SubSeq(completed, 1, k - 1))) IN
    [ j \in 1..Len(completed[k]) |-> ScoreOf(claims[offset + j]) ]

\* C1: two uploads of the same documents (equal bytes, in the same order)
\* produce claims with the same severity, complexity and risk flags.
C1_ScoringDeterministic ==
  Len(UploadedFiles) = Len(claims) =>
    \A k1, k2 \in 1..Len(completed) :
      BytesOf(completed[k1]) = BytesOf(completed[k2])
        => ScoresOfUpload(k1) = ScoresOfUpload(k2)

\* C2: two claims with equal severity, complexity and risk flags have the
\* same suggested team.
C2_RoutingFunctionOfScore ==
  \A i, j \in 1..Len(claims) :
    ScoreOf(claims[i]) = ScoreOf(claims[j])
      => claims[i].suggestedTeam = claims[j].suggestedTeam

\* C3: an upload that completes for a document set an earlier completed
\* upload already carried adds no claim.
C3_SubmitIdempotent ==
  [][ (UploadCompletes
        /\ \E k \in 1..Len(completed) :
             DocumentSet(completed[k]) = DocumentSet(upload.files))
      => claims' = claims ]_vars

\* C4: every claim is in one of the pipeline states Submitted, Extracting,
\* Extracted, Scoring, Scored, Routing, Routed, Failed.
PipelineStates ==
  { "Submitted", "Extracting", "Extracted", "Scoring", "Scored", "Routing",
    "Routed", "Failed" }
C4_StateInPipeline ==
  \A j \in 1..Len(claims) : claims[j].status \in PipelineStates

\* C5: a reassign call for a listed claim changes that claim's record (its
\* team, or the history entry the call appends).
ClaimWithId(cs, claimId) == { cs[j] : j \in { k \in 1..Len(cs) : cs[k].id = claimId } }
C5_ReassignTakesEffect ==
  [][ \A claimId \in ClaimIdsOf(claims) :
        handleReassign(claimId)
          => ClaimWithId(claims', claimId) # ClaimWithId(claims, claimId) ]_vars

\* C6: a reassign call leaves the severity, complexity and risk flags of
\* every claim of the list as they were.
C6_ReassignKeepsScores ==
  [][ (\E claimId \in ClaimIdsOf(claims) : handleReassign(claimId))
      => ScoresOf(claims') = ScoresOf(claims) ]_vars
\* A claim of the list has been reassigned.
C6_Witness ==
  \E j \in 1..Len(claims) : alertMsg = ReassignAlert(claims[j].id)

\* C7: every claim's severity is an integer from 1 to 10 and its complexity
\* is Low, Medium or High.
C7_SeverityComplexityRange ==
  \A j \in 1..Len(claims) :
    /\ claims[j].severity \in 1..10
    /\ claims[j].complexity \in { "Low", "Medium", "High" }
\* The list holds a claim of severity 10 and a claim of severity 1.
C7_Witness ==
  \E i, j \in 1..Len(claims) :
    claims[i].severity = 10 /\ claims[j].severity = 1

\* C8: no two claims of the list have the same id.
C8_UniqueIds ==
  \A i, j \in 1..Len(claims) : i # j => claims[i].id # claims[j].id
\* The list holds the claims of two uploads.
C8_Witness ==
  Len(completed) >= 2 /\ Len(claims) >= 2

\* C9: a claim of the list is in the list after every step.
C9_NeverDeleted ==
  [][ \A j \in 1..Len(claims) : \E k \in 1..Len(claims') : claims'[k] = claims[j] ]_vars
\* A claim has stayed through a later upload, a reassignment and a view change.
C9_Witness ==
  /\ Len(completed) >= 2
  /\ Len(claims) >= 2
  /\ \E j \in 1..Len(claims) : alertMsg = ReassignAlert(claims[j].id)
  /\ activeView = "upload"

\* C10: the list holds one claim per completed submit.
C10_OneClaimPerSubmit ==
  Len(claims) = Len(completed)

\* C11: every claim that carries the fraud flag is assigned to the team
\* Fraud Investigation.
HasFlag(c, flag) == \E k \in 1..Len(c.flags) : c.flags[k] = flag
C11_FraudFlagRoutesToFraudTeam ==
  \A j \in 1..Len(claims) :
    HasFlag(claims[j], "Fraudulent Activity Suspected")
      => claims[j].suggestedTeam = "Fraud Investigation"

\* C12: the selection and the upload in flight never hold two entries with
\* the same bytes.
NoTwoWithSameBytes(files) ==
  \A i, j \in 1..Len(files) : i # j => files[i].bytes # files[j].bytes
C12_NoDuplicateDocuments ==
  NoTwoWithSameBytes(selectedFiles) /\ NoTwoWithSameBytes(upload.files)

\* C13: every file of the selection, and so every file handed to the upload
\* handler, has the MIME type application/pdf.
AllPdf(files) == \A j \in 1..Len(files) : files[j].type = "application/pdf"
C13_OnlyPdfSelected ==
  AllPdf(selectedFiles) /\ AllPdf(upload.files)
\* Files are selected and a batch without any PDF has been turned away.
C13_Witness ==
  Len(selectedFiles) > 0 /\ alertMsg = SelectPdfAlert

\* C14: a handleFileSelect or handleDrop call whose batch holds a file that is
\* no PDF shows the alert in that step.
HasNonPdf(files) == \E j \in 1..Len(files) : files[j].type # "application/pdf"
C14_NonPdfAlwaysReported ==
  [][ \A files \in FileLists :
        ((handleFileSelect(files) \/ handleDrop(files)) /\ HasNonPdf(files))
          => alertMsg' = SelectPdfAlert ]_vars

\* C15: an upload that ends without completing leaves the claim list and the
\* active view as they were and resets the loading flag; and any step that
\* changes the claim list adds the claims of a whole batch.
UploadFails == upload # NoUpload /\ upload' = NoUpload /\ completed' = completed
C15_FailedUploadLeavesNothing ==
  [][ /\ UploadFails
        => (claims' = claims /\ activeView' = activeView /\ isLoading' = FALSE)
      /\ claims' # claims
        => (/\ upload # NoUpload
            /\ Len(claims') = Len(claims) + Len(upload.files)) ]_vars
\* An upload has failed while the list held a claim.
C15_Witness ==
  /\ alertMsg = UploadErrorAlert
  /\ Len(claims) >= 1
  /\ ~ isLoading
  /\ upload = NoUpload

\* C16: the banner is printed only if every port the script lists as an
\* access point has answered a probe of this run.
C16_SuccessOnlyIfAllAnswered ==
  printedSuccess => AccessPoints(script) \subseteq answered

\* The ports of the wait_for_service calls that follow the launch of svc in
\* script sc, up to the next launch.
LaunchIndex(sc, svc) ==
  CHOOSE k \in 1..Len(Program(sc)) :
    Program(sc)[k].op = "launch" /\ Program(sc)[k].svc = svc
ReadinessPorts(sc, svc) ==
  { Program(sc)[k].port : k \in
      { n \in (LaunchIndex(sc, svc) + 1)..Len(Program(sc)) :
          /\ Program(sc)[n].op = "wait_for_service"
          /\ \A m \in (LaunchIndex(sc, svc) + 1)..n : Program(sc)[m].op # "launch" } }

\* C17: a service is launched only after every readiness wait of the service
\* launched before it has returned 0; the service on port 8000 is launched
\* only after port 8001 has answered a probe.
C17_LaunchInDependencyOrder ==
  /\ \A i \in 2..Len(launched) :
       /\ ReadinessPorts(script, launched[i - 1]) # {}
       /\ ReadinessPorts(script, launched[i - 1]) \subseteq waitedOk
  /\ \A i \in 1..Len(launched) :
       launched[i] \in { "CLAIMS_API", "MCP_CENTRAL" } => 8001 \in answered
\* All four services of a script have been launched.
C17_Witness ==
  Len(launched) = 4

\* C18: once a signal has ended the script, no service it launched is alive.
C18_SignalStopsAllServices ==
  (signalled # NoSignal /\ exitStatus # Running)
    => \A k \in 1..Len(launched) : launched[k] \notin running

\* The ports a script hands to check_port.
CheckedPorts(sc) ==
  { Program(sc)[k].port : k \in { n \in 1..Len(Program(sc)) : Program(sc)[n].op = "check_port" } }

\* C19: a service is launched only if check_port has reported every checked
\* port available, and no checked port is then in use; a script that has
\* exited at a check_port command has launched nothing.
C19_NoLaunchUnlessPortsFree ==
  /\ Len(launched) > 0
       => /\ CheckedPorts(script) \subseteq checkedFree
          /\ CheckedPorts(script) \cap portsInUse = {}
  /\ (exitStatus # Running /\ signalled = NoSignal /\ Cmd.op = "check_port")
       => /\ exitStatus = "exit 1"
          /\ Cmd.port \in portsInUse
          /\ launched = << >>
\* The script has exited with 1 at a check_port command after other ports
\* passed the check, the port being still in use after kill_port.
C19_Witness ==
  /\ script = "manujain"
  /\ exitStatus = "exit 1"
  /\ Cmd.op = "check_port"
  /\ Cmd.port \in portsInUse
  /\ checkedFree # {}
  /\ launched = << >>

\* C20: wait_for_service makes at most 30 probes; it returns 0 only right
\* after a probe that succeeded, and makes no probe after one that succeeded;
\* it returns 1 only after 30 probes, the last of which failed.
C20_WaitForService ==
  [][ /\ probes' <= 30
      /\ (waitResult # "ok" /\ waitResult' = "ok") => (lastProbe = "ok" /\ probes' = probes)
      /\ (waitResult = "running" /\ lastProbe = "ok")
           => (probes' = probes /\ waitResult' \in { "running", "ok" })
      /\ (waitResult # "fail" /\ waitResult' = "fail")
           => (probes = 30 /\ lastProbe = "fail")
      /\ (waitResult = "running" /\ lastProbe = "fail" /\ waitResult' = "ok") => FALSE
    ]_vars
\* A call has returned 1 after 30 failed probes.
C20_Witness ==
  waitResult = "fail" /\ probes = 30 /\ lastProbe = "fail"

\* C21: every call of wait_for_service returns (0 or 1), unless a signal ends
\* the script first, whatever the probed service does.
C21_WaitTerminates ==
  (waitResult = "running") ~> (waitResult # "running" \/ exitStatus # Running)

\* C22: a readiness wait that fails ends the script with status 1 and kills
\* no service: the services launched so far that are alive stay alive through
\* the exit, and after it a service ends only by itself.
WaitFailsExit ==
  /\ AtCmd("wait_for_service")
  /\ exitStatus' # Running
  /\ signalled' = signalled
UploadStarts == upload' # NoUpload /\ upload' # upload
C23_OneUploadAtATime ==
  [][ /\ UploadStarts => (~ isLoading /\ upload = NoUpload)
      /\ isLoading => ~ ENABLED handleSubmit ]_vars
\* An upload is processing while the user, back on the upload view after a
\* visit to the dashboard, holds a new selection.
C23_Witness ==
  /\ isLoading
  /\ upload # NoUpload
  /\ activeView = "upload"
  /\ Len(selectedFiles) > 0
  /\ selectedFiles[1] # upload.files[1]

\* C24: the loading flag is true exactly while a handleFileUpload call is in
\* progress, and every call that starts ends, after which the flag is false.
C24_LoadingWhileUploading ==
  /\ [](isLoading <=> upload # NoUpload)
  /\ (upload # NoUpload) ~> (upload = NoUpload /\ ~ isLoading)
\* An upload has ended in failure and a later upload has completed; no
\* upload is in progress and the flag is false.
C24_Witness ==
  /\ alertMsg = UploadErrorAlert
  /\ Len(completed) >= 1
  /\ upload = NoUpload
  /\ ~ isLoading

\* C25: an upload of n files that completes puts n new claims at the front of
\* the list, the claim of the file at index i at position i, followed by the
\* previous claims as they were; the active view is then the dashboard.
UploadSucceeds == upload # NoUpload /\ upload' = NoUpload /\ completed' # completed
C25_CompletedUploadPrepends ==
  [][ UploadSucceeds =>
        LET n == Len(upload.files) IN
          /\ n >= 1
          /\ Len(claims') = Len(claims) + n
          /\ \A j \in 1..n :
               claims'[j].id = "CL-" \o ToString(now) \o "-" \o ToString(j - 1)
          /\ SubSeq(claims', n + 1, Len(claims')) = claims
          /\ activeView' = "dashboard" ]_vars
\* A second upload has completed on top of the claim of the first, and the
\* dashboard is shown.
C25_Witness ==
  /\ Len(completed) = 2
  /\ Len(claims) = 2
  /\ claims[1].id # claims[2].id
  /\ upload = NoUpload
  /\ activeView = "dashboard"

\* C26: with an empty selection a submit does nothing; the loading flag is
\* set only for a batch of at least one file, and an upload that completes
\* adds at least one claim.
C26_NoEmptyBatch ==
  [][ /\ Len(selectedFiles) = 0 => ~ ENABLED handleSubmit
      /\ (~ isLoading /\ isLoading') => Len(upload'.files) >= 1
      /\ UploadSucceeds => Len(claims') >= Len(claims) + 1 ]_vars
\* An upload has run and the upload view is shown again with nothing
\* selected and no upload in progress.
C26_Witness ==
  /\ activeView = "upload"
  /\ Len(selectedFiles) = 0
  /\ ~ isLoading
  /\ Len(completed) >= 1
  /\ Len(claims) >= 1

\* C27: every claim has one, two or three risk flags, the first ones of the
\* list Litigation Risk, Fraudulent Activity Suspected, High Value, Urgent
\* Review: Litigation Risk is always among them, Urgent Review never.
C27_FlagsArePrefix ==
  \A j \in 1..Len(claims) :
    /\ Len(claims[j].flags) \in 1..3
    /\ claims[j].flags =
         SubSeq(<< "Litigation Risk", "Fraudulent Activity Suspected",
                   "High Value", "Urgent Review" >>, 1, Len(claims[j].flags))
    /\ HasFlag(claims[j], "Litigation Risk")
    /\ ~ HasFlag(claims[j], "Urgent Review")
\* The list holds a claim with three flags and a claim with one.
C27_Witness ==
  \E i, j \in 1..Len(claims) :
    Len(claims[i].flags) = 3 /\ Len(claims[j].flags) = 1

\* C28: removeFile(i) takes the entry at position i (0-based) out of the
\* selection and keeps the others in their order; clearAllFiles empties the
\* selection; a handleFileSelect call with a batch without any PDF leaves
\* the selection as it was (no step that changes the selection is such a
\* call).
C28_SelectionEditing ==
  [][ /\ \A index \in 0..(MaxSelected - 1) :
           removeFile(index)
             => selectedFiles' = SubSeq(selectedFiles, 1, index)
                                   \o SubSeq(selectedFiles, index + 2, Len(selectedFiles))
      /\ clearAllFiles => selectedFiles' = << >>
      /\ selectedFiles' # selectedFiles
           => \A files \in FileLists :
                (\A j \in 1..Len(files) : files[j].type # "application/pdf")
                  => ~ handleFileSelect(files) ]_vars
\* Two different files are selected, so that either can be removed, and a
\* batch without any PDF has been turned away.
C28_Witness ==
  /\ Len(selectedFiles) = 2
  /\ selectedFiles[1] # selectedFiles[2]
  /\ alertMsg = SelectPdfAlert
  /\ activeView = "upload"

====
